---- MODULE Spec2Model ----
(***************************************************************************)
(* gtimer: hierarchical timing wheel.  One dispatch loop per wheel level   *)
(* (wheel.start), one drain goroutine per non-empty tick (wheel.proceed),  *)
(* one goroutine per launched job with a deferred recover wrapper.         *)
(***************************************************************************)
EXTENDS Integers, Sequences, FiniteSets, TLC

\* ---------------------------------------------------------------- constants
StatusReady == 0
StatusRunning == 1
StatusStopped == 2
StatusReset == 3
StatusClosed == -1
gDefaultTimes == 2147483647
gDefaultSlotNumber == 10
gDefaultWheelInterval == 50
gDefaultWheelLevel == 6

\* ------------------------------------------------------------------- bounds
\* The clock stops at MaxNow milliseconds.
MaxNow == 4
\* At most MaxCalls Stop/Start/Reset/Close calls on entry handles.
MaxCalls == 1
\* At most MaxTimerCalls Stop/Start/Close calls on the timer.
MaxTimerCalls == 2
\* The clock of the 200ms scenario stops at MaxScenarioMs milliseconds.
MaxScenarioMs == 1150
\* The clock of the DelayAdd scenarios stops at MaxDelayMs milliseconds.
MaxDelayMs == 9
\* The clock of the latency scenarios stops at MaxLatencyMs milliseconds.
MaxLatencyMs == 36
\* Arrays hold up to MaxLen values.
MaxLen == 3
\* Array values, and the start and end of a range, go from 0 to MaxVal.
MaxVal == 3
\* New() is called with arguments from -1 to MaxArg.
MaxArg == 3
\* At most MaxReads Read/ReadAll calls are made on a ReadCloser.
MaxReads == 4

\* ------------------------------------------------------------ configuration
\* the timer the callers of the first scenarios build: New(2, 1ms, 2)
SmallTimer == [number |-> 2, levels |-> 2, baseMs |-> 1]

VARIABLES
    conf,         \* the arguments the timer was built with (number, levels, baseMs)
    horizon,      \* the scenario ends when the clock shows horizon ms
    regAt,        \* the time (ms) at which the scenario's caller registers its job
    newArgs,      \* the arguments of the last New() call
    newErr,       \* New() failed with a configuration error
    delayed,      \* delayed[e]: the Add* call the job of e makes (DelayAdd*)
    cmdOptions,   \* cmdenv: the parsed command-line options
    environ,      \* the environment variables of the process
    defaults,     \* gtimer: defaultSlots, defaultLevel, defaultInterval
    array,        \* garray.Uint64: a.array
    called,       \* garray: the last call made and how it ended
    body,         \* utils.ReadCloser: content, read position, repeatable
    reads,        \* the Read and ReadAll calls made on body, and what each returned
    now,          \* wall clock, ms
    timerStatus,  \* timer.status
    alive,        \* alive[w]: the dispatch goroutine of wheel w has not returned
    tickC,        \* tickC[w]: a value is pending in ticker.C of wheel w
    ticks,        \* w.ticks
    slots,        \* slots[w][i]: the list of installed entries, front first
    registered,   \* registered[e]: e was added to the timer
    singleton,    \* entry.singleton
    limit,        \* the times the entry was registered with
    raw,          \* entry.rawIntervalMs
    status,       \* entry.status
    times,        \* entry.times (remaining runs)
    drains,       \* the drain goroutines of proceed
    jobs,         \* the job goroutines of proceed
    launches,     \* launches[e]: number of job goroutines started for e
    crashed,      \* the process died of an unrecovered panic
    calls,        \* number of entry-handle calls made
    tcalls,       \* number of timer calls made
    ctl,          \* ctl[e]: the calls (Stop, Start, Reset, Close) made on e's handle
    held,         \* held[e]: Stop() returned and no Start()/Reset() since
    exited        \* exited[e]: a job of e called Exit()

vars == <<conf, horizon, regAt, newArgs, newErr, delayed, cmdOptions, environ,
          defaults, array, called, body, reads, now, timerStatus, alive, tickC, ticks, slots, registered, singleton,
          limit, raw, status, times, drains, jobs, launches, crashed, calls,
          tcalls, ctl, held, exited>>

entryVars == <<registered, singleton, limit, raw>>
pkgVars == <<cmdOptions, environ, defaults, array, called, body, reads>>
\* what a running timer's goroutines and the callers of Add* leave alone
restVars == <<conf, horizon, regAt, newArgs, newErr, delayed, pkgVars>>

\* New(slotNumber, baseInterval, levelCount)
Number == conf.number
Levels == conf.levels
BaseMs == conf.baseMs

Wheels == 0 .. (Levels - 1)
SlotIdx == 0 .. (Number - 1)
Entries == {1, 2}
\* raw intervals (ms) the callers register jobs with
Intervals == {BaseMs, BaseMs * Number + BaseMs}
\* limits of AddTimes
TimesChoices == {2}

RECURSIVE Pow(_, _)
Pow(b, k) == IF k = 0 THEN 1 ELSE b * Pow(b, k - 1)

\* wheel.intervalMs of level w
IntervalMs(w) == BaseMs * Pow(Number, w)
histVars == <<calls, tcalls, ctl, held, exited>>

\* ------------------------------------------------- Entry (handle operations)
\* entry.Status() is the read status[e]; entry.SetStatus(s) the write below.
SetStatus(st, e, s) == [st EXCEPT ![e] = s]

\* entry.Close(): any -> Closed, idempotent.
Close(st, e) == SetStatus(st, e, StatusClosed)

\* entry.Stop(): Ready/Running -> Stopped, nothing otherwise.
Stop(st, e) ==
    IF st[e] \in {StatusReady, StatusRunning} THEN SetStatus(st, e, StatusStopped) ELSE st

\* entry.Start(): Stopped -> Ready, nothing otherwise.
Start(st, e) ==
    IF st[e] = StatusStopped THEN SetStatus(st, e, StatusReady) ELSE st

\* entry.Reset(): -> Reset (a Closed entry is re-armed too).
Reset(st, e) == SetStatus(st, e, StatusReset)

\* ---------------------------------------------------------------- placement
CeilDiv(a, b) == (a + b - 1) \div b

\* faulty variant: a delay of exactly one rotation does not fit the level
FitsBelow(rem, w) == rem < IntervalMs(w) * Number

\* rem fits within one rotation of level w
Fits(rem, w) == rem <= IntervalMs(w) * Number

\* the finest level whose full rotation covers rem (the coarsest if none does)
FitLevel(rem) ==
    IF \E w \in Wheels : Fits(rem, w)
    THEN CHOOSE w \in Wheels : Fits(rem, w) /\ \A v \in Wheels : v < w => ~Fits(rem, v)
    ELSE Levels - 1

\* number of ticks of level w that cover rem
TicksFor(rem, w) == CeilDiv(rem, IntervalMs(w))

\* the installed copy of an entry
Installed(e, w, tk, rem, ms) ==
    [e |-> e, create |-> tk[w], interval |-> TicksFor(rem, w),
     createMs |-> ms, intervalMs |-> rem]

\* doAddEntry / doAddEntryByParent: install e for rem milliseconds from now
DoAddEntry(sl, tk, e, rem, ms) ==
    LET w == FitLevel(rem)
        i == (tk[w] + TicksFor(rem, w)) % Number
    IN  [sl EXCEPT ![w][i] = Append(@, Installed(e, w, tk, rem, ms))]

\* ---------------------------------------------------------------- wheel.start
\* faulty variant: a stopped timer's tick is processed like a running one's
LoopOnStoppedProceeds(ts) ==
    CASE ts = "Running" -> "proceed"
      [] ts = "Stopped" -> "proceed"
      [] ts = "Closed" -> "return"

\* faulty variant: a closed timer's tick is skipped like a stopped one's: no return
LoopOnClosedSkips(ts) ==
    CASE ts = "Running" -> "proceed"
      [] ts = "Stopped" -> "skip"
      [] ts = "Closed" -> "skip"

\* what one receive from ticker.C does, by timer status
LoopOn(ts) ==
    CASE ts = "Running" -> "proceed"
      [] ts = "Stopped" -> "skip"
      [] ts = "Closed" -> "return"

\* faulty variant: the slot of the counter before the increment
SlotOfBefore(n) == (n + Number - 1) % Number

\* the slot a tick drains
SlotOf(n) == n % Number

\* a drain goroutine is started for a non-empty slot only
Drains(length) == length > 0

NoEntry == [e |-> 0, create |-> 0, interval |-> 0, createMs |-> 0, intervalMs |-> 0]

\* go func(l, nowTicks) of proceed
NewDrain(w, n, length) ==
    [w |-> w, n |-> n, i |-> length, pc |-> "begin", nowMs |-> 0, cur |-> NoEntry]

\* the job goroutines of entry e that are at pc
At(e, pc) == jobs[e][pc]

\* executions of e that have not finished (job body or deferred function)
InFlight(e) == At(e, "job") + At(e, "ret") + At(e, "status") + At(e, "set")

\* the loop of wheel w waits for drain goroutine d: never, proceed starts it
\* with a go statement and returns
LoopWaits(w, d) == FALSE

\* proceed(): n := w.ticks.Add(1); l := w.slots[n % w.number]
Proceed(w) ==
    LET n == ticks[w] + 1
        length == Len(slots[w][SlotOf(n)])
    IN  /\ ticks' = [ticks EXCEPT ![w] = n]
        /\ drains' = IF Drains(length) THEN drains \cup {NewDrain(w, n, length)} ELSE drains
        /\ UNCHANGED alive

\* one receive from ticker.C in the loop of start()
Tick(w) ==
    /\ ~crashed
    /\ UNCHANGED restVars
    /\ alive[w]
    /\ tickC[w]
    /\ \A d \in drains : ~LoopWaits(w, d)
    /\ tickC' = [tickC EXCEPT ![w] = FALSE]
    /\ CASE LoopOn(timerStatus) = "proceed" -> Proceed(w)
         [] LoopOn(timerStatus) = "skip" -> UNCHANGED <<ticks, drains, alive>>
         [] LoopOn(timerStatus) = "return" ->
                /\ alive' = [alive EXCEPT ![w] = FALSE]
                /\ UNCHANGED <<ticks, drains>>
    /\ UNCHANGED <<now, timerStatus, slots, entryVars, status, times, jobs, launches,
                   crashed, histVars>>

\* time passes; every live ticker whose period ends delivers into its channel.
\* The loops of start() do nothing but receive and call proceed(), which starts
\* goroutines and returns: a delivered tick is received before the next
\* millisecond.
ClockAdvance ==
    /\ ~crashed
    /\ UNCHANGED restVars
    /\ now < horizon
    /\ \A w \in Wheels : ~tickC[w]
    /\ now' = now + 1
    /\ tickC' = [w \in Wheels |->
                   IF alive[w] /\ (now + 1) % IntervalMs(w) = 0 THEN TRUE ELSE tickC[w]]
    /\ UNCHANGED <<timerStatus, alive, ticks, slots, entryVars, status, times, drains,
                   jobs, launches, crashed, histVars>>

\* -------------------------------------------------------------- entry.check
\* the entry is due at tick n of its wheel
Due(c, n) == n - c.create >= c.interval

\* time left, at nowMs, until the installed copy c should fire
LeftMs(c, nowMs) == c.intervalMs - (nowMs - c.createMs)

\* check(nowTicks, nowMs) on the popped copy c of wheel w: the verdict
\*   "keep"   not runnable, addable      "drop"   not runnable, not addable
\*   "run"    runnable, addable          "refine" re-installed with its residual
Check(c, w, n, nowMs) ==
    CASE status[c.e] = StatusStopped -> "keep"
      [] status[c.e] = StatusClosed -> "drop"
      [] status[c.e] = StatusReset -> "keep"
      [] OTHER ->
            IF ~Due(c, n) THEN "keep"
            ELSE IF w > 0 /\ LeftMs(c, nowMs) > 0 THEN "refine"
            ELSE IF singleton[c.e] /\ status[c.e] = StatusRunning THEN "keep"
            ELSE IF times[c.e] <= 0 THEN "drop"
            ELSE "run"

\* the status check() leaves behind
CheckStatus(c, verdict) ==
    CASE verdict = "run" ->
            IF times[c.e] - 1 = 0 THEN Close(status, c.e)
            ELSE SetStatus(status, c.e, StatusRunning)
      [] verdict = "drop" -> Close(status, c.e)
      [] OTHER -> status

\* the remaining runs check() leaves behind: one less for each run
CheckTimes(c, verdict) ==
    IF verdict = "run" THEN [times EXCEPT ![c.e] = @ - 1] ELSE times

\* -------------------------------------------------------------- wheel.proceed
Runnable(verdict) == verdict = "run"

\* faulty variant: only an entry that was run is installed again
AddableWhenRun(verdict) == verdict = "run"

Addable(verdict) == verdict \in {"run", "keep"}

\* faulty variant: the job is started for every popped entry, runnable or not
LaunchAlways(runnable) == 1

\* go func(entry) of proceed: the number of goroutines started to run entry.job()
Launch(runnable) == IF runnable THEN 1 ELSE 0

\* the drain goroutine after it is done with one entry: i--, loop or return
NextEntry(d) ==
    IF d.i - 1 > 0
    THEN {[d EXCEPT !.i = d.i - 1, !.pc = "pop", !.cur = NoEntry]}
    ELSE {}

\* faulty variant: the entry is taken from the back of the list
PopBack(l) == [entry |-> l[Len(l)], list |-> SubSeq(l, 1, Len(l) - 1)]

\* l.PopFront() on a list that is not empty: the entry taken, the list left
PopFront(l) == [entry |-> Head(l), list |-> Tail(l)]

\* l.PopFront(), entry.check(), and the go statement for a runnable entry
\* (the goroutine's first step also reads nowMs := time.Now())
DrainPop(d) ==
    /\ ~crashed
    /\ UNCHANGED restVars
    /\ d.pc \in {"begin", "pop"}
    /\ LET l == slots[d.w][SlotOf(d.n)]
           ms == IF d.pc = "begin" THEN now ELSE d.nowMs
           dd == [d EXCEPT !.nowMs = ms]
       IN  IF l = <<>>
           THEN /\ drains' = drains \ {d}
                /\ UNCHANGED <<slots, status, times, jobs, launches>>
           ELSE LET c == PopFront(l).entry
                    v == Check(c, d.w, d.n, ms)
                    popped == [slots EXCEPT ![d.w][SlotOf(d.n)] = PopFront(l).list]
                    started == Launch(Runnable(v))
                IN  /\ status' = CheckStatus(c, v)
                    /\ times' = CheckTimes(c, v)
                    /\ slots' = IF v = "refine"
                                THEN DoAddEntry(popped, ticks, c.e, LeftMs(c, ms), now)
                                ELSE popped
                    /\ jobs' = [jobs EXCEPT ![c.e]["job"] = @ + started]
                    /\ launches' = [launches EXCEPT ![c.e] = @ + started]
                    /\ drains' = (drains \ {d}) \cup
                                 (IF Addable(v)
                                  THEN {[dd EXCEPT !.pc = "reset", !.cur = c]}
                                  ELSE NextEntry(dd))
    /\ UNCHANGED <<now, timerStatus, alive, tickC, ticks, entryVars, crashed, histVars>>

\* if entry.Status() == StatusReset
ResolvesReset(st) == st = StatusReset

\* faulty variant: the drain goroutine runs entry.job() itself: it goes on only when
\* the job of the entry in its hands is over
DrainWaitsJob(d) == InFlight(d.cur.e) > 0

\* the drain goroutine waits for the job it launched: never, the job runs in
\* a goroutine of its own
DrainWaits(d) == FALSE

\* the addable entry: the status read; without a Reset to resolve, the re-install
\* entry.wheel.timer.doAddEntryByParent(entry.rawIntervalMs, entry)
DrainReset(d) ==
    /\ ~crashed
    /\ UNCHANGED restVars
    /\ d.pc = "reset"
    /\ ~DrainWaits(d)
    /\ IF ResolvesReset(status[d.cur.e])
       THEN /\ drains' = (drains \ {d}) \cup {[d EXCEPT !.pc = "set"]}
            /\ UNCHANGED slots
       ELSE /\ slots' = DoAddEntry(slots, ticks, d.cur.e, raw[d.cur.e], now)
            /\ drains' = (drains \ {d}) \cup NextEntry(d)
    /\ UNCHANGED <<now, timerStatus, alive, tickC, ticks, entryVars, status,
                   times, jobs, launches, crashed, histVars>>

\* entry.SetStatus(StatusReady), then the re-install
DrainSet(d) ==
    /\ ~crashed
    /\ UNCHANGED restVars
    /\ d.pc = "set"
    /\ status' = SetStatus(status, d.cur.e, StatusReady)
    /\ slots' = DoAddEntry(slots, ticks, d.cur.e, raw[d.cur.e], now)
    /\ drains' = (drains \ {d}) \cup NextEntry(d)
    /\ UNCHANGED <<now, timerStatus, alive, tickC, ticks, entryVars, times,
                   jobs, launches, crashed, histVars>>

\* --------------------------------------------- the job goroutine of proceed
\* how a job body ends: it returns, calls Exit(), or panics with something else
Outcomes == {"return", "exit", "panic"}

\* faulty variant: the deferred function swallows every panic but Exit()
RecoveredSwallows(out) ==
    CASE out = "return" -> "none"
      [] out = "exit" -> "close"
      [] OTHER -> "none"

\* the deferred function: recover(), and what it does with the value
Recovered(out) ==
    CASE out = "return" -> "none"
      [] out = "exit" -> "close"
      [] OTHER -> "panic"

\* faulty variant: the deferred function sets Ready whatever the status is
SetsReadyAlways(st) == TRUE

\* if entry.Status() == StatusRunning
SetsReady(st) == st = StatusRunning

\* the job of an entry that makes no Add* call
NoCall == [op |-> "none", interval |-> 0, singleton |-> FALSE, times |-> 0, status |-> 0]

\* where the goroutine is when entry.job() is about to end: in the job, or,
\* for the job DelayAdd* made, behind its Add* call
Body(e) == IF delayed[e] = NoCall THEN "job" ELSE "ret"

\* one job goroutine of e moves from pc to pc2 ("" : it ends)
Move(e, pc, pc2) ==
    IF pc2 = ""
    THEN [jobs EXCEPT ![e][pc] = @ - 1]
    ELSE [jobs EXCEPT ![e][pc] = @ - 1, ![e][pc2] = @ + 1]

\* entry.job() ends with outcome out and the deferred function recovers:
\* nothing recovered, it goes on to read entry.Status(); Exit() recovered,
\* entry.Close(); anything else, panic(err) again, which ends the process
JobEnd(e, out) ==
    /\ ~crashed
    /\ UNCHANGED restVars
    /\ At(e, Body(e)) > 0
    /\ exited' = IF out = "exit" THEN [exited EXCEPT ![e] = TRUE] ELSE exited
    /\ CASE Recovered(out) = "none" ->
                /\ jobs' = Move(e, Body(e), IF SetsReady(status[e]) THEN "set" ELSE "")
                /\ UNCHANGED <<status, crashed>>
         [] Recovered(out) = "close" ->
                /\ status' = Close(status, e)
                /\ jobs' = Move(e, Body(e), "status")
                /\ UNCHANGED crashed
         [] Recovered(out) = "panic" ->
                /\ crashed' = TRUE
                /\ UNCHANGED <<status, jobs>>
    /\ UNCHANGED <<now, timerStatus, alive, tickC, ticks, slots, entryVars, times,
                   drains, launches, calls, tcalls, ctl, held>>

\* after entry.Close() the deferred function reads entry.Status()
JobStatus(e) ==
    /\ ~crashed
    /\ UNCHANGED restVars
    /\ At(e, "status") > 0
    /\ jobs' = Move(e, "status", IF SetsReady(status[e]) THEN "set" ELSE "")
    /\ UNCHANGED <<now, timerStatus, alive, tickC, ticks, slots, entryVars, status,
                   times, drains, launches, crashed, histVars>>

\* entry.SetStatus(StatusReady), and the goroutine ends
JobSet(e) ==
    /\ ~crashed
    /\ UNCHANGED restVars
    /\ At(e, "set") > 0
    /\ status' = SetStatus(status, e, StatusReady)
    /\ jobs' = Move(e, "set", "")
    /\ UNCHANGED <<now, timerStatus, alive, tickC, ticks, slots, entryVars, times,
                   drains, launches, crashed, histVars>>

\* ------------------------------------------------------------- registration
\* entries are registered in the order of their ids
NextId(e) == ~registered[e] /\ \A f \in Entries : f < e => registered[f]

\* the entry Timer.AddEntry creates and installs
Entered(e, interval, sg, tm, st) ==
    /\ registered' = [registered EXCEPT ![e] = TRUE]
    /\ singleton' = [singleton EXCEPT ![e] = sg]
    /\ limit' = [limit EXCEPT ![e] = IF tm <= 0 THEN gDefaultTimes ELSE tm]
    /\ raw' = [raw EXCEPT ![e] = interval]
    /\ status' = [status EXCEPT ![e] = st]
    /\ times' = [times EXCEPT ![e] = IF tm <= 0 THEN gDefaultTimes ELSE tm]
    /\ slots' = DoAddEntry(slots, ticks, e, interval, now)

\* Timer.AddEntry(interval, job, singleton, times, status)
AddEntry(e, interval, sg, tm, st) ==
    /\ ~crashed
    /\ UNCHANGED restVars
    /\ NextId(e)
    /\ Entered(e, interval, sg, tm, st)
    /\ UNCHANGED <<now, timerStatus, alive, tickC, ticks, drains, jobs, launches,
                   crashed, histVars>>

\* faulty variant: Add registers a job of one run, as AddOnce does
AddAsOnce(e, interval) == AddEntry(e, interval, FALSE, 1, StatusReady)

Add(e, interval) == AddEntry(e, interval, FALSE, gDefaultTimes, StatusReady)

AddSingleton(e, interval) == AddEntry(e, interval, TRUE, gDefaultTimes, StatusReady)

AddOnce(e, interval) == AddEntry(e, interval, FALSE, 1, StatusReady)

AddTimes(e, interval, tm) == AddEntry(e, interval, FALSE, tm, StatusReady)

\* Timer.DelayAddEntry: AddOnce(delay, func() { AddEntry(interval, job, ...) })
DelayAddEntry(e, delay, interval, sg, tm, st) ==
    /\ ~crashed
    /\ NextId(e)
    /\ Entered(e, delay, FALSE, 1, StatusReady)
    /\ delayed' = [delayed EXCEPT ![e] =
                     [op |-> "AddEntry", interval |-> interval, singleton |-> sg,
                      times |-> tm, status |-> st]]
    /\ UNCHANGED <<conf, horizon, regAt, newArgs, newErr, pkgVars, now, timerStatus,
                   alive, tickC, ticks, drains, jobs, launches, crashed, histVars>>

DelayAdd(e, delay, interval) ==
    DelayAddEntry(e, delay, interval, FALSE, gDefaultTimes, StatusReady)

DelayAddSingleton(e, delay, interval) ==
    DelayAddEntry(e, delay, interval, TRUE, gDefaultTimes, StatusReady)

DelayAddOnce(e, delay, interval) ==
    DelayAddEntry(e, delay, interval, FALSE, 1, StatusReady)

DelayAddTimes(e, delay, interval, tm) ==
    DelayAddEntry(e, delay, interval, FALSE, tm, StatusReady)

\* the job DelayAdd* gave its one-shot entry e: the Add* call, made in the
\* goroutine proceed started for e
JobCall(e) ==
    /\ ~crashed
    /\ delayed[e] # NoCall
    /\ At(e, "job") > 0
    /\ \E f \in Entries :
          /\ NextId(f)
          /\ Entered(f, delayed[e].interval, delayed[e].singleton, delayed[e].times,
                     delayed[e].status)
    /\ jobs' = Move(e, "job", "ret")
    /\ UNCHANGED <<restVars, now, timerStatus, alive, tickC, ticks, drains, launches,
                   crashed, histVars>>

\* ------------------------------------------------- calls on an entry handle
Call(e) == ~crashed /\ registered[e] /\ calls < MaxCalls

CallFrame(e, op) ==
    /\ UNCHANGED restVars
    /\ calls' = calls + 1
    /\ ctl' = [ctl EXCEPT ![e] = @ \cup {op}]
    /\ UNCHANGED <<now, timerStatus, alive, tickC, ticks, slots, entryVars, drains,
                   jobs, launches, crashed, tcalls, exited>>

EntryStop(e) ==
    /\ Call(e)
    /\ status' = Stop(status, e)
    /\ held' = [held EXCEPT ![e] = (Stop(status, e)[e] = StatusStopped)]
    /\ UNCHANGED times
    /\ CallFrame(e, "Stop")

EntryStart(e) ==
    /\ Call(e)
    /\ status' = Start(status, e)
    /\ held' = [held EXCEPT ![e] = FALSE]
    /\ UNCHANGED times
    /\ CallFrame(e, "Start")

EntryReset(e) ==
    /\ Call(e)
    /\ status' = Reset(status, e)
    /\ times' = [times EXCEPT ![e] = limit[e]]
    /\ held' = [held EXCEPT ![e] = FALSE]
    /\ CallFrame(e, "Reset")

EntryClose(e) ==
    /\ Call(e)
    /\ status' = Close(status, e)
    /\ UNCHANGED <<times, held>>
    /\ CallFrame(e, "Close")

\* ------------------------------------------------------- calls on the timer
\* Timer.Start / Timer.Stop / Timer.Close set timer.status
TimerSet(ts) ==
    /\ ~crashed
    /\ UNCHANGED restVars
    /\ tcalls < MaxTimerCalls
    /\ tcalls' = tcalls + 1
    /\ timerStatus' = ts
    /\ UNCHANGED <<now, alive, tickC, ticks, slots, entryVars, status, times, drains,
                   jobs, launches, crashed, calls, ctl, held, exited>>

TimerStart == TimerSet("Running")

TimerStop == TimerSet("Stopped")

TimerClose == TimerSet("Closed")

\* ------------------------------------------------------------ specification
\* the state New(c.number, c.baseMs, c.levels) leaves: every wheel built and
\* started
Built(c) ==
    /\ conf = c
    /\ newArgs = c
    /\ newErr = FALSE
    /\ timerStatus = "Running"
    /\ alive = [w \in 0 .. (c.levels - 1) |-> TRUE]
    /\ tickC = [w \in 0 .. (c.levels - 1) |-> FALSE]
    /\ ticks = [w \in 0 .. (c.levels - 1) |-> 0]
    /\ slots = [w \in 0 .. (c.levels - 1) |-> [i \in 0 .. (c.number - 1) |-> <<>>]]

\* no entry yet, no goroutine, no call made
NoEntries ==
    /\ now = 0
    /\ registered = [e \in Entries |-> FALSE]
    /\ singleton = [e \in Entries |-> FALSE]
    /\ limit = [e \in Entries |-> 0]
    /\ raw = [e \in Entries |-> 0]
    /\ status = [e \in Entries |-> StatusReady]
    /\ times = [e \in Entries |-> 0]
    /\ delayed = [e \in Entries |-> NoCall]
    /\ drains = {}
    /\ jobs = [e \in Entries |-> [pc \in {"job", "ret", "status", "set"} |-> 0]]
    /\ launches = [e \in Entries |-> 0]
    /\ crashed = FALSE
    /\ calls = 0
    /\ tcalls = 0
    /\ ctl = [e \in Entries |-> {}]
    /\ held = [e \in Entries |-> FALSE]
    /\ exited = [e \in Entries |-> FALSE]

\* no call made on an array yet
\* the nil slice
Nil == [nil |-> TRUE, items |-> <<>>]

Uncalled ==
    [op |-> "none", args |-> <<>>, before |-> <<>>, panicked |-> FALSE, result |-> Nil]

\* no ReadCloser made yet
NoBody == [content |-> <<>>, index |-> 0, repeatable |-> FALSE]

\* the other packages before any call
PkgIdle ==
    /\ cmdOptions = <<>>
    /\ environ = [k \in {} |-> <<>>]
    /\ defaults = [slots |-> 0, level |-> 0, interval |-> 0]
    /\ array = <<>>
    /\ called = Uncalled
    /\ body = NoBody
    /\ reads = <<>>

\* New(2, 1ms, 2) has returned, no entry yet
Init ==
    /\ horizon = MaxNow
    /\ regAt = 0
    /\ Built(SmallTimer)
    /\ NoEntries
    /\ PkgIdle

\* registration of the next entry out of S
Register(S) ==
    \E e \in S, iv \in Intervals :
        \/ Add(e, iv)
        \/ AddSingleton(e, iv)
        \/ AddOnce(e, iv)
        \/ \E tm \in TimesChoices : AddTimes(e, iv, tm)

Handle ==
    \E e \in Entries : EntryStop(e) \/ EntryStart(e) \/ EntryReset(e) \/ EntryClose(e)

Dispatch ==
    \/ ClockAdvance
    \/ \E w \in Wheels : Tick(w)
    \/ \E d \in drains : DrainPop(d) \/ DrainReset(d)

Execute ==
    \E e \in Entries : (\E out \in Outcomes : JobEnd(e, out)) \/ JobStatus(e) \/ JobSet(e)

\* one entry, its handle in the hands of a caller
Next == Register({1}) \/ Handle \/ Dispatch \/ (\E d \in drains : DrainSet(d)) \/ Execute

Spec == Init /\ [][Next]_vars

\* one entry, and a caller of the timer's Start/Stop/Close
NextTimer ==
    Register({1}) \/ Dispatch \/ Execute \/ TimerStart \/ TimerStop \/ TimerClose

SpecTimer == Init /\ [][NextTimer]_vars

\* two entries of a few runs each, registered as the timer starts, no caller
\* of their handles, jobs that return or panic
NextPair ==
    \/ \E e \in Entries, iv \in Intervals, tm \in TimesChoices :
            now = 0 /\ AddTimes(e, iv, tm)
    \/ Dispatch
    \/ \E e \in Entries : JobEnd(e, "return") \/ JobEnd(e, "panic") \/ JobSet(e)

SpecPair == Init /\ [][NextPair]_vars

\* one entry, its handle in the hands of a caller, jobs that return
NextWheel ==
    \/ Register({1})
    \/ Handle
    \/ Dispatch
    \/ \E d \in drains : DrainSet(d)
    \/ JobEnd(1, "return") \/ JobSet(1)

SpecWheel == Init /\ [][NextWheel]_vars

\* ------------------------------------------------------- timing scenarios
\* Goroutines that are ready to run are scheduled within the millisecond: the
\* clock goes on when every delivered tick was received and every drain
\* goroutine has returned; the caller registers its job at regAt.
PromptClock ==
    /\ drains = {}
    /\ now = regAt => registered[1]
    /\ ClockAdvance

\* the job of entry e is registered by the scenario's caller at regAt
AtRegAt(e) == now = regAt /\ \A w \in Wheels : ~tickC[w]

\* the phases of the base tick period at which a caller may register
Phases(c) == {0, 1, c.baseMs \div 2, c.baseMs - 1}

\* New(10, 50ms, 1)
ScenarioTimer == [number |-> gDefaultSlotNumber, levels |-> 1, baseMs |-> gDefaultWheelInterval]

InitScenario ==
    /\ horizon = MaxScenarioMs
    /\ regAt \in Phases(ScenarioTimer)
    /\ Built(ScenarioTimer)
    /\ NoEntries
    /\ PkgIdle

\* Add(200ms, job) on that timer, jobs that return
NextScenario ==
    \/ AtRegAt(1) /\ Add(1, 200)
    \/ PromptClock
    \/ \E w \in Wheels : Tick(w)
    \/ \E d \in drains : DrainPop(d) \/ DrainReset(d)
    \/ JobEnd(1, "return")
    \/ JobSet(1)

SpecScenario == InitScenario /\ [][NextScenario]_vars

\* the level configurations of the latency scenarios: New(2, 1ms or 2ms, 1..3)
LatencyTimers ==
    {[number |-> 2, levels |-> l, baseMs |-> b] : l \in 1 .. 3, b \in 1 .. 2}

\* what one rotation of the coarsest wheel of timer c covers, ms
TotalMs(c) == c.baseMs * Pow(c.number, c.levels)

\* the tick period of the coarsest wheel of timer c, ms
CoarsestMs(c) == c.baseMs * Pow(c.number, c.levels - 1)

\* the delays a timer can hold: up to one rotation of its coarsest wheel
Delays == 1 .. TotalMs(conf)

InitLatency ==
    /\ horizon = MaxLatencyMs
    /\ \E c \in LatencyTimers :
            /\ Built(c)
            /\ regAt \in 0 .. (CoarsestMs(c) - 1)
    /\ NoEntries
    /\ PkgIdle

\* AddOnce(D, job) at any phase of the coarsest tick period, a job that returns
NextLatency ==
    \/ \E iv \in Delays : AtRegAt(1) /\ AddOnce(1, iv)
    \/ PromptClock
    \/ \E w \in Wheels : Tick(w)
    \/ \E d \in drains : DrainPop(d) \/ DrainReset(d)
    \/ JobEnd(1, "return")

SpecLatency == InitLatency /\ [][NextLatency]_vars

\* ------------------------------------------------------------------- New
\* no timer built yet
NoTimer == [number |-> 0, levels |-> 0, baseMs |-> 0]

\* faulty variant: the level count is not validated
ValidButLevel(a) == a.number > 0 /\ a.baseMs > 0

\* the arguments New accepts: all positive
Valid(a) == a.number > 0 /\ a.baseMs > 0 /\ a.levels > 0

\* New(slotCount, baseInterval, levelCount): a configuration error and no wheel
\* for arguments it does not accept; otherwise every level built and started
New(a) ==
    /\ newArgs = NoTimer
    /\ newArgs' = a
    /\ IF Valid(a)
       THEN /\ newErr' = FALSE
            /\ conf' = a
            /\ timerStatus' = "Running"
            /\ alive' = [w \in 0 .. (a.levels - 1) |-> TRUE]
            /\ tickC' = [w \in 0 .. (a.levels - 1) |-> FALSE]
            /\ ticks' = [w \in 0 .. (a.levels - 1) |-> 0]
            /\ slots' = [w \in 0 .. (a.levels - 1) |-> [i \in 0 .. (a.number - 1) |-> <<>>]]
       ELSE /\ newErr' = TRUE
            /\ UNCHANGED <<conf, timerStatus, alive, tickC, ticks, slots>>
    /\ UNCHANGED <<horizon, regAt, delayed, pkgVars, now, entryVars, status, times,
                   drains, jobs, launches, crashed, histVars>>

\* the arguments callers pass to New
NewArgs ==
    {[number |-> n, levels |-> l, baseMs |-> b] :
        n \in -1 .. MaxArg, l \in -1 .. MaxArg, b \in -1 .. MaxArg} \ {NoTimer}

\* before New is called: no wheel
InitNew ==
    /\ horizon = MaxNow
    /\ regAt = 0
    /\ conf = NoTimer
    /\ newArgs = NoTimer
    /\ newErr = FALSE
    /\ timerStatus = "None"
    /\ alive = [w \in {} |-> TRUE]
    /\ tickC = [w \in {} |-> FALSE]
    /\ ticks = [w \in {} |-> 0]
    /\ slots = [w \in {} |-> <<>>]
    /\ NoEntries
    /\ PkgIdle

\* one call of New, and the loops of the wheels it started
NextNew ==
    \/ \E a \in NewArgs : New(a)
    \/ ClockAdvance
    \/ \E w \in Wheels : Tick(w)

SpecNew == InitNew /\ [][NextNew]_vars

\* a singleton entry registered as the timer starts, its handle in the hands
\* of a caller, jobs that return when they like
NextSingleton ==
    \/ \E iv \in Intervals : AtRegAt(1) /\ AddSingleton(1, iv)
    \/ Handle
    \/ Dispatch
    \/ \E d \in drains : DrainSet(d)
    \/ JobEnd(1, "return") \/ JobSet(1)

SpecSingleton == Init /\ [][NextSingleton]_vars

\* an AddOnce entry registered as the timer starts, and a caller that calls
\* Reset() on its handle; jobs that return
NextRearm ==
    \/ \E iv \in Intervals : AtRegAt(1) /\ AddOnce(1, iv)
    \/ EntryReset(1)
    \/ PromptClock
    \/ \E w \in Wheels : Tick(w)
    \/ \E d \in drains : DrainPop(d) \/ DrainReset(d) \/ DrainSet(d)
    \/ JobEnd(1, "return")

\* a goroutine that can run does run, and the clock goes on
SpecRearm == Init /\ [][NextRearm]_vars /\ WF_vars(NextRearm)

\* the arguments DelayAddEntry is called with besides delay and interval
EntryArgs == {<<sg, 2, st>> : sg \in BOOLEAN, st \in {StatusReady, StatusStopped}}

InitDelay ==
    /\ horizon = MaxDelayMs
    /\ regAt \in 0 .. 1
    /\ Built(SmallTimer)
    /\ NoEntries
    /\ PkgIdle

\* one DelayAdd* call at regAt, with any delay the timer can hold
NextDelay ==
    \/ \E dl \in Delays, iv \in Intervals : AtRegAt(1) /\ DelayAdd(1, dl, iv)
    \/ \E dl \in Delays, iv \in Intervals : AtRegAt(1) /\ DelayAddSingleton(1, dl, iv)
    \/ \E dl \in Delays, iv \in Intervals : AtRegAt(1) /\ DelayAddOnce(1, dl, iv)
    \/ \E dl \in Delays, iv \in Intervals, tm \in TimesChoices :
            AtRegAt(1) /\ DelayAddTimes(1, dl, iv, tm)
    \/ \E dl \in Delays, iv \in Intervals, a \in EntryArgs :
            AtRegAt(1) /\ DelayAddEntry(1, dl, iv, a[1], a[2], a[3])
    \/ PromptClock
    \/ \E w \in Wheels : Tick(w)
    \/ \E d \in drains : DrainPop(d) \/ DrainReset(d)
    \/ JobCall(1)
    \/ \E e \in Entries : JobEnd(e, "return") \/ JobSet(e)

SpecDelay == InitDelay /\ [][NextDelay]_vars

\* ------------------------------------------------- cmdenv, the default timer
\* gCmdenvKey + ".slots", ".level", ".interval"
TimerKeys == {"gf.gtimer.slots", "gf.gtimer.level", "gf.gtimer.interval"}

\* strings.ToLower(strings.Replace(key, "_", ".", -1))
ToCmdKey(key) ==
    CASE key = "gf.gtimer.slots" -> "gf.gtimer.slots"
      [] key = "gf.gtimer.level" -> "gf.gtimer.level"
      [] key = "gf.gtimer.interval" -> "gf.gtimer.interval"

\* strings.ToUpper(strings.Replace(key, ".", "_", -1))
ToEnvKey(key) ==
    CASE key = "gf.gtimer.slots" -> "GF_GTIMER_SLOTS"
      [] key = "gf.gtimer.level" -> "GF_GTIMER_LEVEL"
      [] key = "gf.gtimer.interval" -> "GF_GTIMER_INTERVAL"

EnvKeys == {ToEnvKey(k) : k \in TimerKeys}

\* gvar.New(value): an int (a default) or a string (an option, a variable);
\* strings are sequences of characters
VarInt(n) == [kind |-> "int", int |-> n, str |-> <<>>]
VarString(str) == [kind |-> "string", int |-> 0, str |-> str]

\* faulty variant: the environment variable is looked up first
GetEnvFirst(key, def) ==
    IF environ[ToEnvKey(key)] # <<>>
    THEN VarString(environ[ToEnvKey(key)])
    ELSE IF ToCmdKey(key) \in DOMAIN cmdOptions
         THEN VarString(cmdOptions[ToCmdKey(key)])
         ELSE VarInt(def)

\* cmdenv.Get(key, def): the option, else the non-empty variable, else def
Get(key, def) ==
    IF ToCmdKey(key) \in DOMAIN cmdOptions
    THEN VarString(cmdOptions[ToCmdKey(key)])
    ELSE IF environ[ToEnvKey(key)] # <<>>
         THEN VarString(environ[ToEnvKey(key)])
         ELSE VarInt(def)

Digits == <<"0", "1", "2", "3", "4", "5", "6", "7", "8", "9">>

IsDigit(c) == \E i \in 1 .. 10 : Digits[i] = c

DigitOf(c) == (CHOOSE i \in 1 .. 10 : Digits[i] = c) - 1

RECURSIVE ParseInt(_, _)
\* the decimal number a string of digits spells, 0 for any other string
ParseInt(str, acc) ==
    IF str = <<>> THEN acc
    ELSE IF ~IsDigit(Head(str)) THEN 0
    ELSE ParseInt(Tail(str), acc * 10 + DigitOf(Head(str)))

\* Var.Int()
IntOf(v) == IF v.kind = "int" THEN v.int ELSE ParseInt(v.str, 0)

\* Var.Duration() * time.Millisecond, in ms
DurationMs(v) == IntOf(v)

\* the package variables before their initialisers have run
NoDefaults == [slots |-> 0, level |-> 0, interval |-> 0]

\* defaultSlots, defaultLevel, defaultInterval
LoadDefaults ==
    /\ defaults = NoDefaults
    /\ defaults' =
          [slots |-> IntOf(Get("gf.gtimer.slots", gDefaultSlotNumber)),
           level |-> IntOf(Get("gf.gtimer.level", gDefaultWheelLevel)),
           interval |-> DurationMs(Get("gf.gtimer.interval", gDefaultWheelInterval))]
    /\ UNCHANGED <<conf, horizon, regAt, newArgs, newErr, delayed, cmdOptions, environ,
                   array, called, body, reads, now, timerStatus, alive, tickC, ticks, slots,
                   entryVars, status, times, drains, jobs, launches, crashed, histVars>>

\* defaultTimer = New(defaultSlots, defaultInterval, defaultLevel)
BuildDefault ==
    /\ defaults # NoDefaults
    /\ New([number |-> defaults.slots, levels |-> defaults.level,
            baseMs |-> defaults.interval])

\* what the command line and the environment may hold for a key
OptionValues == {<<"1", "2">>, <<"3">>}
VariableValues == {<<>>, <<"7">>}

\* the process starts: options parsed, environment given, nothing initialised
InitDefaults ==
    /\ horizon = MaxNow
    /\ regAt = 0
    /\ conf = NoTimer
    /\ newArgs = NoTimer
    /\ newErr = FALSE
    /\ timerStatus = "None"
    /\ alive = [w \in {} |-> TRUE]
    /\ tickC = [w \in {} |-> FALSE]
    /\ ticks = [w \in {} |-> 0]
    /\ slots = [w \in {} |-> <<>>]
    /\ NoEntries
    /\ \E K \in SUBSET TimerKeys : cmdOptions \in [{ToCmdKey(k) : k \in K} -> OptionValues]
    /\ environ \in [EnvKeys -> VariableValues]
    /\ defaults = NoDefaults
    /\ array = <<>>
    /\ called = Uncalled
    /\ body = NoBody
    /\ reads = <<>>

NextDefaults == LoadDefaults \/ BuildDefault

SpecDefaults == InitDefaults /\ [][NextDefaults]_vars

\* ------------------------------------------------------------ garray.Uint64
\* The values drawn are far below 2^64: no uint64 operation below wraps.

\* func(i, j int) bool of the reverse branch of Sort
LessReverse(x, y) == IF x < y THEN FALSE ELSE TRUE

\* func(i, j int) bool of the other branch of Sort
LessDefault(x, y) == IF x < y THEN FALSE ELSE TRUE

Less(rev, x, y) == IF rev THEN LessReverse(x, y) ELSE LessDefault(x, y)

Swap(a, i, j) == [a EXCEPT ![i] = a[j], ![j] = a[i]]

RECURSIVE Sink(_, _, _)
\* sort.Slice on a short slice is an insertion sort; its inner loop:
\* for j := i; j > a && less(j, j-1); j-- { swap(j, j-1) }
Sink(a, j, rev) ==
    IF j > 1 /\ Less(rev, a[j], a[j - 1]) THEN Sink(Swap(a, j, j - 1), j - 1, rev) ELSE a

RECURSIVE InsertionSort(_, _, _)
InsertionSort(a, i, rev) ==
    IF i > Len(a) THEN a ELSE InsertionSort(Sink(a, i, rev), i + 1, rev)

\* sort.Slice(a.array, less)
SortSlice(a, rev) == InsertionSort(a, 2, rev)

garrayFrame ==
    UNCHANGED <<conf, horizon, regAt, newArgs, newErr, delayed, cmdOptions, environ,
                defaults, body, reads, now, timerStatus, alive, tickC, ticks, slots, entryVars,
                status, times, drains, jobs, launches, crashed, histVars>>

\* (a *Uint64) Sort(reverse ...bool)
Sort(reverse) ==
    /\ called.op = "none"
    /\ array' = SortSlice(array, Len(reverse) > 0 /\ reverse[1])
    /\ called' = [op |-> "Sort", args |-> reverse, before |-> array, panicked |-> FALSE,
                  result |-> Nil]
    /\ garrayFrame

\* make([]uint64, (end-start+1)/step)
RangeSize(start, end, step) == (end - start + 1) \div step

RECURSIVE RangeFill(_, _, _, _, _)
\* for i := start; i <= end; i += step { slice[index] = i; index++ }
\* (an index out of range panics)
RangeFill(i, end, step, slice, index) ==
    IF ~(i <= end) THEN [slice |-> slice, panicked |-> FALSE]
    ELSE IF index > Len(slice) THEN [slice |-> slice, panicked |-> TRUE]
    ELSE RangeFill(i + step, end, step, [slice EXCEPT ![index] = i], index + 1)

\* NewUint64Range(start, end, step)
NewUint64Range(start, end, step) ==
    /\ called.op = "none"
    /\ LET r == IF step = 0
                THEN [slice |-> <<>>, panicked |-> TRUE]
                ELSE RangeFill(start, end, step,
                               [k \in 1 .. RangeSize(start, end, step) |-> 0], 1)
       IN  /\ array' = IF r.panicked THEN array ELSE r.slice
           /\ called' = [op |-> "NewUint64Range", args |-> <<start, end, step>>,
                         before |-> array, panicked |-> r.panicked, result |-> Nil]
    /\ garrayFrame

\* a slice of Go: not nil, even when empty
Slice(items) == [nil |-> FALSE, items |-> items]

\* a.array[lo:hi], for 0 <= lo <= hi <= len(a.array)
SliceOf(a, lo, hi) == Slice(SubSeq(a, lo + 1, hi))

\* a slice expression or a make() with these bounds panics
OutOfRange(a, lo, hi) == lo < 0 \/ hi < lo \/ hi > Len(a)

\* offsetEnd := len(a.array); if len(end) > 0 && end[0] < offsetEnd { offsetEnd = end[0] }
OffsetEnd(a, end) == IF Len(end) > 0 /\ end[1] < Len(a) THEN end[1] ELSE Len(a)

\* (a *Uint64) Range(start int, end ...int) []uint64; safe: a.mu.IsSafe()
Range(start, end, safe) ==
    /\ called.op = "none"
    /\ LET offsetEnd == OffsetEnd(array, end)
           from == IF start < 0 THEN 0 ELSE start
           r == IF start > offsetEnd
                THEN [result |-> Nil, panicked |-> FALSE]
                ELSE IF OutOfRange(array, from, offsetEnd)
                     THEN [result |-> Nil, panicked |-> TRUE]
                     ELSE IF safe
                          THEN [result |-> Slice([k \in 1 .. (offsetEnd - from) |->
                                                     array[from + k]]),
                                panicked |-> FALSE]
                          ELSE [result |-> SliceOf(array, from, offsetEnd),
                                panicked |-> FALSE]
       IN  called' = [op |-> "Range", args |-> <<start, end, safe>>, before |-> array,
                      panicked |-> r.panicked, result |-> r.result]
    /\ UNCHANGED array
    /\ garrayFrame

Values == 0 .. MaxVal

\* the offsets Range is called with: before, in and beyond the array
Offsets == (0 - 2) .. (MaxLen + 1)

\* the arrays of up to MaxLen values
Arrays == UNION {[1 .. n -> Values] : n \in 0 .. MaxLen}

\* an array with any content, before a call
InitArray ==
    /\ horizon = MaxNow
    /\ regAt = 0
    /\ Built(SmallTimer)
    /\ NoEntries
    /\ cmdOptions = <<>>
    /\ environ = [k \in {} |-> <<>>]
    /\ defaults = [slots |-> 0, level |-> 0, interval |-> 0]
    /\ array \in Arrays
    /\ called = Uncalled
    /\ body = NoBody
    /\ reads = <<>>

NextArray ==
    \/ \E reverse \in {<<>>, <<FALSE>>, <<TRUE>>} : Sort(reverse)
    \/ \E start \in Values, end \in Values, step \in Values :
            start <= end /\ array = <<>> /\ NewUint64Range(start, end, step)
    \/ \E start \in Offsets, end \in {<<>>} \cup {<<x>> : x \in Offsets}, safe \in BOOLEAN :
            Range(start, end, safe)

SpecArray == InitArray /\ [][NextArray]_vars

\* -------------------------------------------------------- utils.ReadCloser
\* the content of the tests' ReadCloser
TestContent == <<1, 2, 3, 4>>

\* the contents read: short ones over two byte values, and the tests' content
Contents == UNION {[1 .. n -> 1 .. 2] : n \in 0 .. MaxLen} \cup {TestContent}

\* len(b) of the buffers passed to Read (the tests' is 3)
Sizes == 0 .. MaxLen

\* the buffer ioutil.ReadAll reads into is never smaller than this
MinRead == 512

Min(a, b) == IF a < b THEN a ELSE b

\* NewReadCloser(content, repeatable)
NewReadCloser(content, repeatable) ==
    [content |-> content, index |-> 0, repeatable |-> repeatable]

\* faulty variant: the position is never taken back to the start
ReadOnceNoRewind(b, size) ==
    LET n == Min(size, Len(b.content) - b.index)
    IN  [data |-> SubSeq(b.content, b.index + 1, b.index + n),
         eof |-> b.index + n >= Len(b.content),
         body |-> [b EXCEPT !.index = b.index + n]]

\* one b.Read(p) with len(p) = size: the bytes copied into p, whether io.EOF
\* is returned with them, and the ReadCloser afterwards
ReadOnce(b, size) ==
    LET n == Min(size, Len(b.content) - b.index)
        end == b.index + n >= Len(b.content)
    IN  [data |-> SubSeq(b.content, b.index + 1, b.index + n),
         eof |-> end,
         body |-> [b EXCEPT !.index = IF end /\ b.repeatable THEN 0 ELSE b.index + n]]

RECURSIVE ReadAllFrom(_, _)
\* ioutil.ReadAll(b): Read into a buffer of MinRead bytes or more until io.EOF
ReadAllFrom(b, acc) ==
    LET r == ReadOnce(b, MinRead)
    IN  IF r.eof THEN [data |-> acc \o r.data, eof |-> TRUE, body |-> r.body]
        ELSE ReadAllFrom(r.body, acc \o r.data)

readerFrame ==
    UNCHANGED <<conf, horizon, regAt, newArgs, newErr, delayed, cmdOptions, environ,
                defaults, array, called, now, timerStatus, alive, tickC, ticks, slots,
                entryVars, status, times, drains, jobs, launches, crashed, histVars>>

\* n, _ = body.Read(b)
Read(size) ==
    /\ Len(reads) < MaxReads
    /\ LET r == ReadOnce(body, size)
       IN  /\ body' = r.body
           /\ reads' = Append(reads, [op |-> "Read", size |-> size, data |-> r.data,
                                      eof |-> r.eof])
    /\ readerFrame

\* r, _ = ioutil.ReadAll(body)
ReadAll ==
    /\ Len(reads) < MaxReads
    /\ LET r == ReadAllFrom(body, <<>>)
       IN  /\ body' = r.body
           /\ reads' = Append(reads, [op |-> "ReadAll", size |-> MinRead, data |-> r.data,
                                      eof |-> r.eof])
    /\ readerFrame

\* body = NewReadCloser(content, repeatable), nothing read yet
InitReader ==
    /\ horizon = MaxNow
    /\ regAt = 0
    /\ Built(SmallTimer)
    /\ NoEntries
    /\ cmdOptions = <<>>
    /\ environ = [k \in {} |-> <<>>]
    /\ defaults = [slots |-> 0, level |-> 0, interval |-> 0]
    /\ array = <<>>
    /\ called = Uncalled
    /\ \E content \in Contents, repeatable \in BOOLEAN :
            body = NewReadCloser(content, repeatable)
    /\ reads = <<>>

NextReader == (\E size \in Sizes : Read(size)) \/ ReadAll

SpecReader == InitReader /\ [][NextReader]_vars

\* ------------------------------------------------------------------ claims
\* e has an installed copy in some slot
InSlot(e) ==
    \E w \in Wheels, i \in SlotIdx : \E k \in 1 .. Len(slots[w][i]) : slots[w][i][k].e = e

\* e is in the hands of a drain goroutine, popped and not yet re-installed
InDrain(e) == \E d \in drains : d.pc \in {"reset", "set"} /\ d.cur.e = e

\* e is in no slot and in no goroutine's hands: it was dropped
Dropped(e) == registered[e] /\ ~InSlot(e) /\ ~InDrain(e)

\* C1: an entry registered for one run (AddOnce) is never launched twice; once
\* it was launched it is Closed; and when it has left the wheels, without a
\* Close() from its caller, it was launched exactly once (no Reset() called).
C1_ExactlyOnce ==
    \A e \in Entries :
        (registered[e] /\ limit[e] = 1 /\ "Reset" \notin ctl[e]) =>
            /\ launches[e] <= 1
            /\ (launches[e] = 1 => status[e] = StatusClosed)
            /\ (Dropped(e) /\ "Close" \notin ctl[e] => launches[e] = 1)

\* C1 witness: a one-run entry was launched, its job has finished and the entry
\* has been dropped from the wheels.
C1_Witness ==
    \E e \in Entries :
        /\ registered[e] /\ limit[e] = 1 /\ ctl[e] = {}
        /\ launches[e] = 1 /\ InFlight(e) = 0 /\ Dropped(e)

\* e was registered with a limit of runs, and neither its caller nor its job
\* has interfered: no Stop/Start/Reset/Close call, no Exit()
Undisturbed(e) == registered[e] /\ ctl[e] = {} /\ ~exited[e]

\* C2: an entry registered with AddTimes(d, N, job) is launched at most N times,
\* each launch takes one of its N runs, and from the N-th launch on its status
\* is Closed.
C2_Original ==
    \A e \in Entries :
        (Undisturbed(e) /\ limit[e] \in TimesChoices) =>
            /\ launches[e] <= limit[e]
            /\ launches[e] + times[e] = limit[e]
            /\ (launches[e] = limit[e] => status[e] = StatusClosed)

C4_Original ==
    [][\A e \in Entries :
          (held[e] /\ held'[e]) =>
              /\ launches'[e] = launches[e]
              /\ ~(status[e] = StatusStopped /\ status'[e] = StatusReady)]_vars

\* C5: a Closed entry stays Closed, and nothing is launched for it, in every
\* step that is not a Reset() call on it.
C5_Original ==
    [][\A e \in Entries :
          (registered[e] /\ status[e] = StatusClosed /\ ~EntryReset(e)) =>
              (status'[e] = StatusClosed /\ launches'[e] = launches[e])]_vars

\* C6: once a job of the entry has called Exit() the entry is Closed and stays
\* Closed, nothing more is launched for it, and the process does not die of
\* the signal (no call on its handle re-arms it).
C6_Original ==
    [][\A e \in Entries :
          (exited'[e] /\ ctl'[e] = {}) =>
              /\ status'[e] = StatusClosed
              /\ (exited[e] => launches'[e] = launches[e])
              /\ (JobEnd(e, "exit") => ~crashed')]_vars

\* the ticks for which wheel w has started a drain goroutine that still runs
DrainTicks(w) == {d.n : d \in {x \in drains : x.w = w}}

\* C9: while the timer is Stopped no tick counter changes, and a tick received
\* by a wheel's loop changes no slot, starts no drain goroutine and launches
\* nothing; so a wheel goes on from the counter it was stopped at.
C9_StoppedTickIdle ==
    [][timerStatus = "Stopped" =>
          /\ ticks' = ticks
          /\ \A w \in Wheels :
                Tick(w) => UNCHANGED <<slots, drains, jobs, launches, status, times>>]_vars

\* C9 witness: wheel 0 processed the tick of 1ms, received the tick of 2ms
\* while the timer was Stopped, and after Start() processed the tick of 3ms as
\* its second.
C9_Witness ==
    /\ timerStatus = "Running" /\ tcalls = 2 /\ alive[0]
    /\ now = 3 /\ ~tickC[0] /\ ticks[0] = 2

\* C10: a loop that receives a tick while the timer is Closed returns without
\* processing it, and a loop that has returned never advances its counter or
\* starts a drain goroutine again, whatever the timer's status becomes.
C10_ClosedLoopEnds ==
    [][\A w \in Wheels :
          /\ (timerStatus = "Closed" /\ Tick(w)) =>
                (~alive'[w] /\ ticks' = ticks /\ drains' = drains)
          /\ ~alive[w] =>
                (~alive'[w] /\ ticks'[w] = ticks[w] /\ DrainTicks(w)' \subseteq DrainTicks(w))]_vars

\* C10 witness: the loop of wheel 0 returned on the tick of 2ms, the timer was
\* started again, and the clock went on without a tick being processed.
C10_Witness ==
    /\ ~alive[0] /\ timerStatus = "Running"
    /\ now = 3 /\ ticks[0] = 1

\* C7 (as claimed): a job's panic leaves the loops working: a live loop with a
\* tick delivered to it can always process it.
C7_Original ==
    \A w \in Wheels : (alive[w] /\ tickC[w]) => ENABLED Tick(w)

\* C7 (amended): a panic other than Exit() is raised again by the deferred
\* function, and, nothing recovering it, the process ends: no loop processes
\* a tick, nothing is launched, nothing changes any more.
C7_PanicEndsProcess ==
    [][/\ \A e \in Entries : JobEnd(e, "panic") => crashed'
       /\ crashed => vars' = vars]_vars

\* C7 witness: a job of entry 1 panicked while entry 2 was installed and a
\* tick was waiting for the loop of wheel 0.
C7_Witness ==
    crashed /\ launches[1] >= 1 /\ InSlot(2) /\ tickC[0] /\ alive[0]

\* C8: while jobs are running, for as long as they like, a live loop with a
\* delivered tick can process it and every drain goroutine can take its next
\* step.
C8_JobsNeverBlock ==
    \A e \in Entries :
        (~crashed /\ At(e, "job") > 0) =>
            /\ \A w \in Wheels : (alive[w] /\ tickC[w]) => ENABLED Tick(w)
            /\ \A d \in drains : ENABLED (DrainPop(d) \/ DrainReset(d) \/ DrainSet(d))

\* C8 witness: the first job of entry 1 still runs, two more ticks have been
\* processed since and entry 2 was launched in the meantime.
C8_Witness ==
    /\ launches[1] = 1 /\ At(1, "job") = 1
    /\ launches[2] >= 1 /\ ticks[0] >= 3

\* time elapsed since the scenario's caller registered its job
Elapsed == now - regAt

\* C11: on a timer of 10 slots, 50ms and one level, the job of Add(200ms, job)
\* has been launched 5 times when 1050ms have elapsed since the call, and not
\* at all as long as less than 150ms have elapsed.
C11_Scenario ==
    registered[1] =>
        /\ (Elapsed < 150 => launches[1] = 0)
        /\ (Elapsed = 1050 => launches[1] = 5)

\* C11 witness: registered in the middle of a tick period, 1050ms later the job
\* has been launched 5 times.
C11_Witness ==
    registered[1] /\ regAt > 0 /\ Elapsed = 1050 /\ launches[1] = 5

\* every delivered tick was received and every drain goroutine has returned
Settled == drains = {} /\ \A w \in Wheels : ~tickC[w]

\* the wheels that hold an installed copy of e
LevelsOf(e) ==
    {w \in Wheels : \E i \in SlotIdx : \E k \in 1 .. Len(slots[w][i]) : slots[w][i][k].e = e}

\* C12: a job registered with delay D is never launched before D has elapsed
\* since its registration, and it is launched no later than D plus one tick
\* period of the wheel that holds it when D has elapsed.
C12_Original ==
    registered[1] =>
        /\ (launches[1] > 0 => Elapsed >= raw[1])
        /\ (Settled /\ launches[1] = 0) =>
                \A w \in LevelsOf(1) : Elapsed < raw[1] + IntervalMs(w)

\* the interval of e is placed on level 2: it exceeds a rotation of level 1
RequiresLevel2(e) == Levels = 3 /\ registered[e] /\ FitLevel(raw[e]) = 2

\* C13: an entry whose interval requires level 2 is launched by a drain of
\* level 0 only, never by the drain of its level-2 or level-1 slot, and the
\* launch comes within one level-0 tick of the time it is due.
C13_Original ==
    [][(RequiresLevel2(1) /\ launches'[1] > launches[1]) =>
          /\ \E d \in drains : d.w = 0 /\ DrainPop(d)
          /\ Elapsed >= raw[1] - IntervalMs(0)
          /\ Elapsed <= raw[1] + IntervalMs(0)]_vars

\* the wheels that were built and whose loops were started
Started == {w \in DOMAIN alive : w \in DOMAIN slots /\ w \in DOMAIN ticks}

\* C14: New fails with a configuration error and builds and starts no wheel
\* when one of its arguments is not positive; with all of them positive it
\* builds and starts exactly levelCount wheels, each of slotCount slots.
C14_NewValidates ==
    newArgs # NoTimer =>
        IF newArgs.number <= 0 \/ newArgs.baseMs <= 0 \/ newArgs.levels <= 0
        THEN newErr /\ Started = {} /\ DOMAIN alive = {} /\ DOMAIN slots = {}
        ELSE /\ ~newErr
             /\ Cardinality(Started) = newArgs.levels
             /\ DOMAIN alive = Started /\ DOMAIN slots = Started
             /\ \A w \in Started : Cardinality(DOMAIN slots[w]) = newArgs.number

\* C14 witness: New(2, 1ms, 0) was refused: only the level count is wrong, and
\* time has passed since without a tick.
C14_Witness ==
    /\ newErr /\ newArgs.number > 0 /\ newArgs.baseMs > 0 /\ newArgs.levels = 0
    /\ now > 0 /\ Started = {}

\* sl holds a copy of e installed at ms for its full raw interval
InstalledAfresh(sl, e, ms) ==
    \E w \in Wheels, i \in SlotIdx : \E k \in 1 .. Len(sl[w][i]) :
        /\ sl[w][i][k].e = e
        /\ sl[w][i][k].intervalMs = raw[e]
        /\ sl[w][i][k].createMs = ms

\* C15: Reset() on an entry that is not Closed restores its runs to the limit
\* and sets the status Reset; the entry is not launched while it is Reset, and
\* the mark stays until the drain goroutine that next takes the entry sets
\* Ready and installs it afresh for rawIntervalMs (or until it is closed).
C15_Original ==
    [][\A e \in Entries :
          /\ (EntryReset(e) /\ status[e] # StatusClosed) =>
                (status'[e] = StatusReset /\ times'[e] = limit[e])
          /\ (registered[e] /\ status[e] = StatusReset) =>
                /\ launches'[e] = launches[e]
                /\ status'[e] \in {StatusReset, StatusClosed}
                   \/ \E d \in drains :
                         /\ d.cur.e = e /\ DrainSet(d)
                         /\ status'[e] = StatusReady
                         /\ InstalledAfresh(slots', e, now)]_vars

\* Reset() was called on e after its runs were exhausted and the entry Closed,
\* nothing has resolved the mark yet, and two of its intervals fit before the
\* clock stops
ResetWhenClosed(e) ==
    /\ registered[e] /\ ctl[e] = {"Reset"} /\ status[e] = StatusReset
    /\ launches[e] = limit[e]
    /\ now + 2 * raw[e] <= horizon

\* C16: after Reset() on an entry that is Closed the entry is launched again at
\* a later tick, whether or not a drain had dropped it from its slot before.
C16_Original ==
    [](ResetWhenClosed(1) => <>(launches[1] > limit[1]))

\* C17: DelayAdd* registers the underlying entry only in the job of a one-shot
\* entry: one Add* call at most, made when that job runs and not before the
\* delay has elapsed, made once that job is over; and the underlying job is
\* never launched before delay plus interval have elapsed.
C17_Original ==
    [][delayed[1] # NoCall =>
          /\ launches'[1] <= 1
          /\ (registered'[2] /\ ~registered[2]) => (JobCall(1) /\ Elapsed >= raw[1])
          /\ (launches'[1] = 1 /\ InFlight(1)' = 0) => registered'[2]
          /\ launches'[2] > launches[2] => Elapsed >= raw[1] + raw'[2]]_vars

\* the numbers the option and variable values spell
Spells(str) ==
    CASE str = <<"1", "2">> -> 12
      [] str = <<"3">> -> 3
      [] str = <<"7">> -> 7

\* the value the default timer is to be built with for key, given its default
Expected(key, def) ==
    IF ToCmdKey(key) \in DOMAIN cmdOptions THEN Spells(cmdOptions[ToCmdKey(key)])
    ELSE IF environ[ToEnvKey(key)] # <<>> THEN Spells(environ[ToEnvKey(key)])
    ELSE def

\* C18: the default timer is built with 10 slots, 6 levels and 50ms when no
\* option and no environment variable is set; for each key the option goes
\* before a non-empty variable, which goes before the default.
C18_DefaultsPrecedence ==
    newArgs # NoTimer =>
        /\ ~newErr
        /\ conf.number = Expected("gf.gtimer.slots", 10)
        /\ conf.levels = Expected("gf.gtimer.level", 6)
        /\ conf.baseMs = Expected("gf.gtimer.interval", 50)
        /\ Cardinality(Started) = conf.levels
        /\ (DOMAIN cmdOptions = {} /\ \A k \in EnvKeys : environ[k] = <<>>) =>
                conf = [number |-> 10, levels |-> 6, baseMs |-> 50]

\* C18 witness: the timer was built with an option and a variable both set for
\* the slots, only a variable for the levels, and neither for the interval.
C18_Witness ==
    /\ newArgs # NoTimer
    /\ "gf.gtimer.slots" \in DOMAIN cmdOptions /\ environ["GF_GTIMER_SLOTS"] # <<>>
    /\ "gf.gtimer.level" \notin DOMAIN cmdOptions /\ environ["GF_GTIMER_LEVEL"] # <<>>
    /\ "gf.gtimer.interval" \notin DOMAIN cmdOptions /\ environ["GF_GTIMER_INTERVAL"] = <<>>
    /\ conf.number = 12 /\ conf.levels = 7 /\ conf.baseMs = 50

\* the number of times v occurs in a
Count(a, v) == Cardinality({k \in 1 .. Len(a) : a[k] = v})

SameMultiset(a, b) == Len(a) = Len(b) /\ \A v \in Values : Count(a, v) = Count(b, v)

Increasing(a) == \A k \in 1 .. (Len(a) - 1) : a[k] <= a[k + 1]

Decreasing(a) == \A k \in 1 .. (Len(a) - 1) : a[k] >= a[k + 1]

\* C19: after Sort() or Sort(false) the array is in increasing order, after
\* Sort(true) in decreasing order, and it holds the values it held before,
\* each as many times.
C19_Original ==
    called.op = "Sort" =>
        /\ SameMultiset(array, called.before)
        /\ IF Len(called.args) > 0 /\ called.args[1]
           THEN Decreasing(array)
           ELSE Increasing(array)

\* C20: for start <= end and step >= 1 NewUint64Range returns, without a
\* panic, the values start, start+step, ... up to end, floor((end-start)/step)+1
\* of them; it panics only when step is 0.
C20_Original ==
    called.op = "NewUint64Range" =>
        LET start == called.args[1]
            end == called.args[2]
            step == called.args[3]
        IN  /\ called.panicked => step = 0
            /\ (start <= end /\ step >= 1) =>
                  /\ ~called.panicked
                  /\ Len(array) = (end - start) \div step + 1
                  /\ \A k \in 1 .. Len(array) : array[k] = start + (k - 1) * step

\* the end of the range the caller means: the end of the array when omitted
\* or beyond it, counted from the end of the array when negative
MeantEnd(a, end) ==
    IF Len(end) = 0 \/ end[1] > Len(a) THEN Len(a)
    ELSE IF end[1] < 0 THEN Len(a) + end[1]
    ELSE end[1]

\* C21: Range(start, end) never indexes outside the array (no panic) and
\* returns array[start:end], where an omitted end is the end of the array and a
\* negative end is counted from the end of the array.
C21_Original ==
    called.op = "Range" =>
        LET start == called.args[1]
            end == MeantEnd(called.before, called.args[2])
            from == IF start < 0 THEN 0 ELSE start
        IN  /\ ~called.panicked
            /\ (from <= end) => called.result.items = SubSeq(called.before, from + 1, end)

RECURSIVE PosAfter(_)
\* where the next call starts after the first k calls, counted from what they
\* delivered: a repeatable ReadCloser is back at the start once the last byte
\* was delivered
PosAfter(k) ==
    IF k = 0 THEN 0
    ELSE LET q == PosAfter(k - 1) + Len(reads[k].data)
         IN  IF body.repeatable /\ q >= Len(body.content) THEN 0 ELSE q

\* C22: successive Reads deliver the bytes of the content in order, at most
\* len(buffer) each; when not repeatable every Read after the last byte returns
\* 0 bytes; when repeatable the Read after the one that delivered the last
\* byte starts at the first byte again; reading to the end (ReadAll) delivers
\* all that is left, the whole content when a pass begins.
C22_ReadsInOrder ==
    \A k \in 1 .. Len(reads) :
        LET r == reads[k]
            p == PosAfter(k - 1)
            n == Len(r.data)
        IN  /\ r.op = "Read" => n <= r.size
            /\ p + n <= Len(body.content)
            /\ r.data = SubSeq(body.content, p + 1, p + n)
            /\ r.op = "ReadAll" => p + n = Len(body.content)
            /\ (~body.repeatable /\ p = Len(body.content)) => n = 0
            /\ (body.repeatable /\ k > 1 /\ reads[k - 1].data # <<>>
                  /\ PosAfter(k - 2) + Len(reads[k - 1].data) = Len(body.content)) => p = 0

\* C22 witness: the tests' calls on the repeatable ReadCloser over 1, 2, 3, 4:
\* 1, 2, 3 then 4, then 1, 2, 3 again, then ReadAll delivers 4.
C22_Witness ==
    /\ body.repeatable /\ body.content = TestContent
    /\ Len(reads) = 4
    /\ reads[1].data = <<1, 2, 3>> /\ reads[2].data = <<4>>
    /\ reads[3].data = <<1, 2, 3>> /\ reads[4].op = "ReadAll" /\ reads[4].data = <<4>>

\* C23: the remaining runs of an entry are never negative; they go down only
\* in the step that launches its job, by exactly one, and every launch takes
\* one; the step that takes them to 0 leaves the entry Closed.
C23_RunsCountLaunches ==
    [][\A e \in Entries :
          /\ times[e] >= 0 /\ times'[e] >= 0
          /\ times'[e] < times[e] =>
                (times'[e] = times[e] - 1 /\ launches'[e] = launches[e] + 1)
          /\ launches'[e] # launches[e] =>
                (launches'[e] = launches[e] + 1 /\ times'[e] = times[e] - 1)
          /\ (times[e] > 0 /\ times'[e] = 0) => status'[e] = StatusClosed]_vars

\* C23 witness: an entry of two runs was launched twice, nothing else was done
\* to it: no run is left and it is Closed.
C23_Witness ==
    /\ registered[1] /\ limit[1] = 2 /\ ctl[1] = {}
    /\ launches[1] = 2 /\ times[1] = 0 /\ status[1] = StatusClosed

\* the installed copies of e in slot i of wheel w
CopiesIn(e, w, i) == Cardinality({k \in 1 .. Len(slots[w][i]) : slots[w][i][k].e = e})

\* the slots that hold a copy of e
SlotsOf(e) == {<<w, i>> \in Wheels \X SlotIdx : CopiesIn(e, w, i) > 0}

\* C24: a registered job is held by at most one slot over all wheels, once;
\* and a non-Closed entry that no drain goroutine is processing is in exactly
\* one slot.
C24_Original ==
    \A e \in Entries :
        registered[e] =>
            /\ Cardinality(SlotsOf(e)) <= 1
            /\ \A w \in Wheels, i \in SlotIdx : CopiesIn(e, w, i) <= 1
            /\ (status[e] # StatusClosed /\ ~InDrain(e)) => Cardinality(SlotsOf(e)) = 1

\* list l with its first k entries removed
Drop(l, k) == SubSeq(l, k + 1, Len(l))

\* nothing was taken out of list l on the way to list m
Kept(l, m) == Len(m) >= Len(l) /\ SubSeq(m, 1, Len(l)) = l

\* C25: a processed tick takes the wheel's tick counter up by exactly one and
\* starts a drain goroutine for the slot of index (new counter) mod slotCount,
\* if it is not empty, and for no other; a drain goroutine takes entries out
\* of that slot only; a counter never goes down and changes in no other step
\* than a tick processed by its own wheel's loop.
C25_TickDrainsItsSlot ==
    [][/\ \A w \in Wheels :
            /\ ticks'[w] >= ticks[w]
            /\ ticks'[w] # ticks[w] => Tick(w)
            /\ Tick(w) =>
                  /\ ticks'[w] = ticks[w] + 1
                  /\ \A v \in Wheels \ {w} : ticks'[v] = ticks[v]
                  /\ drains \subseteq drains'
                  /\ \A d \in drains' \ drains : d.w = w /\ d.n = ticks'[w]
                  /\ (slots[w][ticks'[w] % Number] # <<>>) <=> (drains' # drains)
                  /\ slots' = slots
       /\ \A d \in drains :
            DrainPop(d) =>
                \A w \in Wheels, i \in SlotIdx :
                    IF w = d.w /\ i = d.n % Number
                    THEN Kept(Drop(slots[w][i], 1), slots'[w][i])
                    ELSE Kept(slots[w][i], slots'[w][i])]_vars

\* C25 witness: wheel 0 has processed three ticks and wheel 1 one; the drain
\* goroutine of the third tick of wheel 0 has taken an entry out of slot 1.
C25_Witness ==
    /\ ticks[0] = 3 /\ ticks[1] = 1
    /\ \E d \in drains : d.w = 0 /\ d.n = 3 /\ d.pc = "reset"
    /\ slots[0][1] = <<>>

\* the copy c was in its slot of wheel w when tick n of w fired: it was
\* installed while the counter was still below n
InSlotAtTick(c, n) == c.create < n

\* C26: a drain goroutine processes only entries that were in its slot when
\* its tick fired: an entry pushed into the slot after that, by this goroutine
\* or by another, is not popped by it and waits for a later tick of the slot.
C26_Original ==
    [][\A d \in drains :
          (DrainPop(d) /\ slots[d.w][d.n % Number] # <<>>) =>
              InSlotAtTick(Head(slots[d.w][d.n % Number]), d.n)]_vars

\* the drain goroutine d goes on with the copy c in its hands, or has dealt
\* with it in the step (handed to a finer level, or dropped)
Evaluates(d, c) ==
    \/ \E x \in drains' \ drains : x.w = d.w /\ x.n = d.n /\ x.cur = c
    \/ \E w \in Wheels, i \in SlotIdx :
          /\ Len(slots'[w][i]) > 0
          /\ slots'[w][i][Len(slots'[w][i])].e = c.e
          /\ slots'[w][i][Len(slots'[w][i])].createMs = now
          /\ slots'[w][i][Len(slots'[w][i])].intervalMs = LeftMs(c, now)
    \/ status'[c.e] = StatusClosed /\ launches'[c.e] = launches[c.e]

\* C27: every slot is a queue: a step adds entries at the back only and takes
\* out the first only, and the entry a drain goroutine takes out is the one it
\* evaluates; so one drain evaluates entries in the order they were pushed.
C27_FifoDrain ==
    [][\A w \in Wheels, i \in SlotIdx :
          \/ Kept(slots[w][i], slots'[w][i])
          \/ /\ slots[w][i] # <<>>
             /\ Kept(Tail(slots[w][i]), slots'[w][i])
             /\ \E d \in drains :
                   /\ d.w = w /\ d.n % Number = i /\ DrainPop(d)
                   /\ Evaluates(d, Head(slots[w][i]))]_vars

\* C27 witness: entry 1 and entry 2 were pushed into one slot in that order; the
\* drain goroutine of the slot has taken entry 1 and left entry 2 at the front.
C27_Witness ==
    \E d \in drains :
        /\ d.i = 2 /\ d.pc = "reset" /\ d.cur.e = 1
        /\ Len(slots[d.w][d.n % Number]) = 1
        /\ Head(slots[d.w][d.n % Number]).e = 2

\* slotResolutionMs(L) = baseIntervalMs * slotCount^L
SlotResolutionMs(L) == BaseMs * Pow(Number, L)

\* the installed copies, each with the level and the slot that hold it
Placements ==
    UNION {{<<x[1], x[2], slots[x[1]][x[2]][k]>> : k \in 1 .. Len(slots[x[1]][x[2]])} :
              x \in Wheels \X SlotIdx}

\* C28: every installed copy whose delay fits the coarsest level sits on the
\* finest level L with remainingMs <= slotResolutionMs(L) * slotCount: it fits
\* its level and no finer one.
C28_FinestLevel ==
    \A p \in Placements :
        LET L == p[1]
            remainingMs == p[3].intervalMs
        IN  remainingMs <= SlotResolutionMs(Levels - 1) * Number =>
                /\ remainingMs <= SlotResolutionMs(L) * Number
                /\ \A F \in Wheels : F < L => remainingMs > SlotResolutionMs(F) * Number

\* C28 witness: on a timer of three levels an entry first placed on level 2 has
\* been handed down, with what was left of its delay, to level 1.
C28_Witness ==
    /\ Levels = 3 /\ registered[1] /\ raw[1] > SlotResolutionMs(1) * Number
    /\ \E p \in Placements :
          p[1] = 1 /\ p[3].e = 1 /\ p[3].createMs > regAt /\ p[3].intervalMs < raw[1]

\* ceil(a / b): the least number of b's that cover a
Ceil(a, b) == CHOOSE q \in 0 .. a : q * b >= a /\ (q = 0 \/ (q - 1) * b < a)

\* the copy p[3] sits in the slot the placement rule gives for the tick counter
\* of its level at the time it was installed
AtCeilSlot(p) ==
    p[2] = (p[3].create + Ceil(p[3].intervalMs, SlotResolutionMs(p[1]))) % Number

\* C29: every installed copy is in the slot of index (tick counter of its level
\* when installed + ceil(remainingMs / slotResolutionMs)) mod slotCount, and a
\* tick drains a slot only when remainingMs have elapsed for every copy in it.
C29_Original ==
    [][/\ \A p \in Placements : AtCeilSlot(p)
       /\ \A w \in Wheels :
            Tick(w) =>
                \A p \in Placements :
                    (p[1] = w /\ p[2] = ticks'[w] % Number) =>
                        now - p[3].createMs >= p[3].intervalMs]_vars

\* the drain goroutine d is about to take a singleton entry that is due while
\* its status is Running (and is not to be handed to a finer level)
SingletonDueRunning(d) ==
    /\ d.pc \in {"begin", "pop"}
    /\ slots[d.w][d.n % Number] # <<>>
    /\ LET c == Head(slots[d.w][d.n % Number])
       IN  /\ singleton[c.e] /\ status[c.e] = StatusRunning
           /\ d.n - c.create >= c.interval
           /\ (d.w = 0 \/ c.intervalMs - (now - c.createMs) <= 0)

\* C30: when a drain goroutine takes a singleton entry that is due while its
\* status is Running, nothing is launched, its remaining runs and its status
\* stay as they are, and the goroutine keeps the entry to install it again;
\* and it does install it again, for its raw interval from then.
C30_SingletonSkip ==
    [][\A d \in drains :
          /\ (SingletonDueRunning(d) /\ DrainPop(d)) =>
                LET c == Head(slots[d.w][d.n % Number])
                IN  /\ launches' = launches /\ jobs' = jobs
                    /\ times' = times /\ status' = status
                    /\ \E x \in drains' \ drains :
                          x.w = d.w /\ x.n = d.n /\ x.pc = "reset" /\ x.cur = c
          /\ (d.pc = "reset" /\ singleton[d.cur.e] /\ DrainReset(d)
                /\ status[d.cur.e] # StatusReset) =>
                    /\ InstalledAfresh(slots', d.cur.e, now)
                    /\ launches' = launches /\ times' = times /\ status' = status]_vars

\* C30 witness: a singleton entry registered for one base tick as the timer
\* started was launched once; while that job still runs, a later drain has
\* taken the copy installed after the launch, which was due, has launched
\* nothing and holds the entry to install it again.
C30_Witness ==
    /\ registered[1] /\ singleton[1] /\ ctl[1] = {} /\ raw[1] = BaseMs
    /\ status[1] = StatusRunning /\ launches[1] = 1 /\ At(1, "job") = 1
    /\ times[1] = gDefaultTimes - 1
    /\ \E d \in drains :
          /\ d.pc = "reset" /\ d.cur.e = 1
          /\ d.cur.create >= 1 /\ d.n - d.cur.create >= d.cur.interval

====
